---- MODULE Spec2Model ----
(***************************************************************************)
(* Model of the job catalog kept by JobStorageService                      *)
(* (src/src/services/jobStorageService.ts) and of the admin panel action   *)
(* that feeds it (AdminJobManager.syncWithAPI).                            *)
(*                                                                         *)
(* A Job carries the fields the store or its queries read or write; salary, *)
(* url, logo and application_link, which are only copied, are left out.    *)
(* Timestamps are clock instants in milliseconds (toISOString is           *)
(* order-preserving and injective on them).  A string is an atomic value;  *)
(* Chars spells it where the code looks inside it.                         *)
(***************************************************************************)
EXTENDS Integers, Sequences, FiniteSets, TLC

\* ---------------------------------------------------------------- bounds
MaxTime == 1        \* last clock instant the model reaches
MaxJobs == 2        \* longest collection the model builds
MaxPayload == 2     \* longest payload batch handed to a sync
MaxIds == 2         \* longest id list handed to deleteJobs
NumRand == 2        \* distinct outcomes of Math.random() in generateId
NumGiven == 1       \* distinct ids a provider payload may carry

\* ------------------------------------------------------- program constants
DayMs == 86400000
ADMIN_PASSCODE == "723899"

\* ------------------------------------------------------------------ values
\* An id string is modelled by its shape: `job_<a>_<b>`, `api_job_<a>_<b>`,
\* or a string given verbatim by a payload or an update.
JobId(t, r) == [kind |-> "job", a |-> t, b |-> r]
ApiJobId(t, i) == [kind |-> "api_job", a |-> t, b |-> i]
GivenId(n) == [kind |-> "given", a |-> n, b |-> 0]
NoId == [kind |-> "none", a |-> 0, b |-> 0]       \* undefined / "" (falsy)
UnknownId == GivenId(0)
GivenIds == {GivenId(n) : n \in 1..NumGiven}

NoText == ""        \* undefined / "" (falsy)
Titles == {"A", "B"}
NoDate == -1        \* created_at undefined / "" (falsy)
BadDate == -2       \* a created_at string Date cannot parse
Times == 0..MaxTime

\* a list field of a payload: undefined, or an array (truthy even when empty)
NoList == [given |-> FALSE, items |-> <<>>]
List(items) == [given |-> TRUE, items |-> items]

Null == [id |-> NoId, title |-> NoText, company |-> NoText,
         location |-> NoText, type |-> NoText, experience |-> NoText,
         description |-> NoText, requirements |-> <<>>, skills |-> <<>>,
         remote |-> FALSE, posted |-> NoText, source |-> "null",
         created_at |-> NoDate, updated_at |-> NoDate]

VARIABLES
    jobs,       \* JobStorageService.jobs
    storage,    \* localStorage item under STORAGE_KEY
    session,    \* localStorage item under ADMIN_SESSION_KEY
    writable,   \* whether localStorage.setItem currently succeeds or throws
    now,        \* the clock read by Date.now() / new Date()
    shape,      \* what kind of value this.jobs holds; `jobs` is its content
                \* when it is an array
    inflight,   \* the forced searchJobs calls awaiting their fetch
    last        \* the last call: its name, arguments, result, and what it saw

vars == <<jobs, storage, session, writable, now, shape, inflight, last>>

\* ----------------------------------------------------------------- helpers
Range(s) == {s[i] : i \in 1..Len(s)}

IdsOf(js) == {js[i].id : i \in 1..Len(js)}

\* Array.prototype.findIndex(job => job.id === id): 0-based, -1 if none
findIndex(js, id) ==
    IF \E i \in 1..Len(js) : js[i].id = id
    THEN (CHOOSE i \in 1..Len(js) :
             js[i].id = id /\ \A k \in 1..(i - 1) : js[k].id # id) - 1
    ELSE -1

ceilDiv(x, y) == (x + y - 1) \div y

abs(x) == IF x < 0 THEN 0 - x ELSE x

\* getTime() of a date: milliseconds since the epoch, written as whole days
\* and milliseconds of the day so that months stay within TLC's integers
Instant(t) == [day |-> t \div DayMs, ms |-> t % DayMs]

Before(a, b) == a.day < b.day \/ (a.day = b.day /\ a.ms < b.ms)

\* Math.abs(a - b) of two instants
absDiff(a, b) ==
    LET hi == IF Before(a, b) THEN b ELSE a
        lo == IF Before(a, b) THEN a ELSE b
    IN  IF hi.ms >= lo.ms
        THEN [day |-> hi.day - lo.day, ms |-> hi.ms - lo.ms]
        ELSE [day |-> hi.day - lo.day - 1, ms |-> hi.ms + DayMs - lo.ms]

\* Math.ceil(diffTime / (1000 * 60 * 60 * 24))
ceilDays(diffTime) == diffTime.day + (IF diffTime.ms > 0 THEN 1 ELSE 0)

\* variant: a week begins after the seventh day
formatInstant_weekAfter7(date, nowDate) ==
    LET diffTime == absDiff(nowDate, date)
        diffDays == ceilDays(diffTime)
    IN  IF diffDays = 1 THEN "1 day ago"
        ELSE IF diffDays <= 7 THEN ToString(diffDays) \o " days ago"
        ELSE IF diffDays < 30
             THEN ToString(ceilDiv(diffDays, 7)) \o " weeks ago"
        ELSE ToString(ceilDiv(diffDays, 30)) \o " months ago"

\* formatDate for a date that parsed
formatInstant(date, nowDate) ==
    LET diffTime == absDiff(nowDate, date)
        diffDays == ceilDays(diffTime)
    IN  IF diffDays = 1 THEN "1 day ago"
        ELSE IF diffDays < 7 THEN ToString(diffDays) \o " days ago"
        ELSE IF diffDays < 30
             THEN ToString(ceilDiv(diffDays, 7)) \o " weeks ago"
        ELSE ToString(ceilDiv(diffDays, 30)) \o " months ago"

formatDate(dateString, t) ==
    IF dateString = BadDate
    THEN "NaN months ago"          \* every comparison with NaN is false
    ELSE formatInstant(Instant(dateString), Instant(t))

generateId(t, r) == JobId(t, r)

\* apiJobs.map((job, index) => ...); index is 0-based
normalizeAPIJobs(apiJobs, t) ==
    [i \in 1..Len(apiJobs) |->
        LET job == apiJobs[i] IN
        [id         |-> IF job.id # NoId THEN job.id ELSE ApiJobId(t, i - 1),
         title      |-> IF job.title # NoText THEN job.title ELSE "Job Position",
         company    |-> IF job.company # NoText THEN job.company ELSE "Company",
         location   |-> IF job.location # NoText THEN job.location
                        ELSE "Location",
         type       |-> IF job.job_type # NoText THEN job.job_type
                        ELSE IF job.type # NoText THEN job.type
                        ELSE "full-time",
         experience |-> IF job.experience # NoText THEN job.experience
                        ELSE IF job.experience_level # NoText
                             THEN job.experience_level
                        ELSE "Not specified",
         description |-> IF job.description # NoText THEN job.description
                         ELSE "No description available",
         requirements |-> IF job.requirements.given THEN job.requirements.items
                          ELSE IF job.skills.given THEN job.skills.items
                          ELSE <<>>,
         skills     |-> IF job.skills.given THEN job.skills.items
                        ELSE IF job.requirements.given
                             THEN job.requirements.items
                        ELSE <<>>,
         remote     |-> job.remote \/ job.is_remote,
         posted     |-> IF job.created_at # NoDate
                        THEN formatDate(job.created_at, t) ELSE "Recently",
         created_at |-> IF job.created_at # NoDate THEN job.created_at ELSE t,
         updated_at |-> t,
         source     |-> "api"]]

\* localStorage.setItem(STORAGE_KEY, JSON.stringify(js)); a throw is swallowed
\* variant: only the records the admin created are written
saveToStorage_localsOnly(js) ==
    storage' = IF writable
               THEN [kind |-> "array",
                     value |-> SelectSeq(js, LAMBDA job : job.source = "admin")]
               ELSE storage

\* setItem(STORAGE_KEY, JSON.stringify(this.jobs)) within try/catch
saveToStorage(js) ==
    storage' = IF writable THEN [kind |-> "array", value |-> js] ELSE storage

getAllJobs == jobs

\* this.jobs.find(job => job.id === id) || null
getJobById(js, id) ==
    LET index == findIndex(js, id)
    IN  IF index = -1 THEN Null ELSE js[index + 1]

IsApi(job) == job.source = "api"

IsRemote(job) == job.remote

\* variant: the local count filters on the wrong provenance
getJobStats_apiTwice ==
    [total      |-> Len(jobs),
     apiJobs    |-> Len(SelectSeq(jobs, IsApi)),
     adminJobs  |-> Len(SelectSeq(jobs, IsApi)),
     remoteJobs |-> Len(SelectSeq(jobs, IsRemote)),
     companies  |-> Cardinality({jobs[i].company : i \in 1..Len(jobs)}),
     locations  |-> Cardinality({jobs[i].location : i \in 1..Len(jobs)})]

getJobStats ==
    [total      |-> Len(jobs),
     apiJobs    |-> Len(SelectSeq(jobs, IsApi)),
     adminJobs  |-> Len(SelectSeq(jobs, LAMBDA job : job.source = "admin")),
     remoteJobs |-> Len(SelectSeq(jobs, IsRemote)),
     companies  |-> Cardinality({jobs[i].company : i \in 1..Len(jobs)}),
     locations  |-> Cardinality({jobs[i].location : i \in 1..Len(jobs)})]

\* ------------------------------------------------------------------- text
\* the characters of each string the queries look inside
Chars(s) ==
    CASE s = "" -> <<>>
      [] s = "A" -> <<"A">>
      [] s = "B" -> <<"B">>
      [] s = "a" -> <<"a">>
      [] s = "b" -> <<"b">>
      [] s = "x" -> <<"x">>
      [] s = "Ab" -> <<"A", "b">>
      [] s = "a b" -> <<"a", " ", "b">>
      [] s = " x" -> <<" ", "x">>
      [] s = " x," -> <<" ", "x", ",">>
      [] s = "Job Position" ->
             <<"J", "o", "b", " ", "P", "o", "s", "i", "t", "i", "o", "n">>
      [] s = "Company" -> <<"C", "o", "m", "p", "a", "n", "y">>
      [] s = "Location" -> <<"L", "o", "c", "a", "t", "i", "o", "n">>
      [] s = "Not specified" ->
             <<"N", "o", "t", " ", "s", "p", "e", "c", "i", "f", "i", "e", "d">>
      [] s = "No description available" ->
             <<"N", "o", " ", "d", "e", "s", "c", "r", "i", "p", "t", "i", "o",
               "n", " ", "a", "v", "a", "i", "l", "a", "b", "l", "e">>

Lower(c) ==
    CASE c = "A" -> "a"
      [] c = "B" -> "b"
      [] c = "C" -> "c"
      [] c = "J" -> "j"
      [] c = "L" -> "l"
      [] c = "N" -> "n"
      [] c = "P" -> "p"
      [] OTHER -> c

\* the strings Chars spells
Strings ==
    {"", "A", "B", "a", "b", "x", "Ab", "a b", " x", " x,", "Job Position",
     "Company", "Location", "Not specified", "No description available"}

\* the string that some characters spell
Str(cs) == CHOOSE s \in Strings : Chars(s) = cs

\* String.prototype.trim, on the characters
RECURSIVE trim(_)
trim(cs) ==
    IF Len(cs) = 0 THEN cs
    ELSE IF Head(cs) = " " THEN trim(Tail(cs))
    ELSE IF cs[Len(cs)] = " " THEN trim(SubSeq(cs, 1, Len(cs) - 1))
    ELSE cs

\* String.prototype.split(','), on the characters
RECURSIVE split(_)
split(cs) ==
    IF \A i \in 1..Len(cs) : cs[i] # ","
    THEN <<cs>>
    ELSE LET i == CHOOSE k \in 1..Len(cs) :
                      cs[k] = "," /\ \A m \in 1..(k - 1) : cs[m] # ","
         IN  <<SubSeq(cs, 1, i - 1)>> \o split(SubSeq(cs, i + 1, Len(cs)))

\* text.split(',').map(s => s.trim()).filter(s => s)
splitTrimFilter(text) ==
    LET parts == split(Chars(text))
        trimmed == [i \in 1..Len(parts) |-> trim(parts[i])]
        kept == SelectSeq(trimmed, LAMBDA part : part # <<>>)
    IN  [i \in 1..Len(kept) |-> Str(kept[i])]

\* String.prototype.toLowerCase, on the characters
toLowerCase(cs) == [i \in 1..Len(cs) |-> Lower(cs[i])]

\* String.prototype.includes, on the characters
includes(cs, sub) ==
    \E i \in 0..(Len(cs) - Len(sub)) : SubSeq(cs, i + 1, i + Len(sub)) = sub

\* Array.prototype.join(' ') of strings, as characters
RECURSIVE join(_)
join(strs) ==
    IF Len(strs) = 0 THEN <<>>
    ELSE IF Len(strs) = 1 THEN Chars(strs[1])
    ELSE Chars(strs[1]) \o <<" ">> \o join(Tail(strs))

\* `${job.title} ${job.company} ${job.description} ${job.skills.join(' ')}`
searchableText(job) ==
    toLowerCase(Chars(job.title) \o <<" ">> \o Chars(job.company) \o <<" ">>
                \o Chars(job.description) \o <<" ">> \o join(job.skills))

\* a JobFilters object: location, type and experience are NoText and skills
\* is <<>> when not given or empty (both falsy to the code); remote is a field
\* of the record only when it is given
NoFilters ==
    [location |-> NoText, type |-> NoText, experience |-> NoText,
     skills |-> <<>>]

\* variant: the remote filter is applied only when the flag is truthy
getFilteredJobs_remoteTruthy(query, filters) ==
    LET byQuery(job) ==
            includes(searchableText(job), toLowerCase(Chars(query)))
        byLocation(job) ==
            includes(toLowerCase(Chars(job.location)),
                     toLowerCase(Chars(filters.location)))
        byType(job) == job.type = filters.type
        byExperience(job) ==
            includes(toLowerCase(Chars(job.experience)),
                     toLowerCase(Chars(filters.experience)))
        byRemote(job) == job.remote = filters.remote
        bySkills(job) ==
            \E k \in 1..Len(filters.skills) : \E j \in 1..Len(job.skills) :
                includes(toLowerCase(Chars(job.skills[j])),
                         toLowerCase(Chars(filters.skills[k])))
        f0 == jobs
        f1 == IF query # NoText THEN SelectSeq(f0, byQuery) ELSE f0
        f2 == IF filters.location # NoText THEN SelectSeq(f1, byLocation)
              ELSE f1
        f3 == IF filters.type # NoText THEN SelectSeq(f2, byType) ELSE f2
        f4 == IF filters.experience # NoText
              THEN SelectSeq(f3, byExperience) ELSE f3
        f5 == IF "remote" \in DOMAIN filters /\ filters.remote
              THEN SelectSeq(f4, byRemote) ELSE f4
        f6 == IF Len(filters.skills) > 0 THEN SelectSeq(f5, bySkills) ELSE f5
    IN  f6

getFilteredJobs(query, filters) ==
    LET byQuery(job) ==
            includes(searchableText(job), toLowerCase(Chars(query)))
        byLocation(job) ==
            includes(toLowerCase(Chars(job.location)),
                     toLowerCase(Chars(filters.location)))
        byType(job) == job.type = filters.type
        byExperience(job) ==
            includes(toLowerCase(Chars(job.experience)),
                     toLowerCase(Chars(filters.experience)))
        byRemote(job) == job.remote = filters.remote
        bySkills(job) ==
            \E k \in 1..Len(filters.skills) : \E j \in 1..Len(job.skills) :
                includes(toLowerCase(Chars(job.skills[j])),
                         toLowerCase(Chars(filters.skills[k])))
        f0 == jobs
        f1 == IF query # NoText THEN SelectSeq(f0, byQuery) ELSE f0
        f2 == IF filters.location # NoText THEN SelectSeq(f1, byLocation)
              ELSE f1
        f3 == IF filters.type # NoText THEN SelectSeq(f2, byType) ELSE f2
        f4 == IF filters.experience # NoText
              THEN SelectSeq(f3, byExperience) ELSE f3
        f5 == IF "remote" \in DOMAIN filters
              THEN SelectSeq(f4, byRemote) ELSE f4
        f6 == IF Len(filters.skills) > 0 THEN SelectSeq(f5, bySkills) ELSE f5
    IN  f6

isAdminAuthenticated == session = "true"

\* variant: the exception of a failed write leaves saveToStorage and the call
Call_rethrow(op, arg, ret, wrote) ==
    [op |-> op, arg |-> arg, ret |-> ret, wrote |-> wrote, ok |-> writable,
     t |-> now, pre |-> jobs, store |-> storage, sess |-> session,
     raised |-> (wrote /\ ~writable)]

\* the record of a call; saveToStorage catches what setItem throws, so a
\* call that wrote does not raise
Call(op, arg, ret, wrote) ==
    [op |-> op, arg |-> arg, ret |-> ret, wrote |-> wrote, ok |-> writable,
     t |-> now, pre |-> jobs, store |-> storage, sess |-> session,
     raised |-> FALSE]

\* --------------------------------------------------------------- the state
Init ==
    /\ jobs = <<>>
    /\ storage = [kind |-> "absent", value |-> <<>>]
    /\ session = "absent"
    /\ writable = TRUE
    /\ now = 0
    /\ shape = "array"
    /\ inflight = <<>>
    /\ last = [op |-> "init", arg |-> <<>>, ret |-> 0, wrote |-> FALSE,
               ok |-> TRUE, t |-> 0, pre |-> <<>>,
               store |-> [kind |-> "absent", value |-> <<>>],
               sess |-> "absent", raised |-> FALSE]

Tick ==
    /\ now < MaxTime
    /\ now' = now + 1
    /\ last' = Call("tick", <<>>, 0, FALSE)
    /\ UNCHANGED <<jobs, storage, session, writable, shape, inflight>>

\* ------------------------------------------------------------------ inputs
FutureDate == MaxTime + 5

\* the fields of a provider payload that the normalizer reads
\* a payload that gives id, title and created_at and no other field
Payload(id, title, created_at) ==
    [id |-> id, title |-> title, company |-> NoText, location |-> NoText,
     job_type |-> NoText, type |-> NoText, experience |-> NoText,
     experience_level |-> NoText, description |-> NoText,
     requirements |-> NoList, skills |-> NoList, remote |-> FALSE,
     is_remote |-> FALSE, created_at |-> created_at]

\* a Job object read as a payload
AsPayload(job) ==
    [id |-> job.id, title |-> job.title, company |-> job.company,
     location |-> job.location, job_type |-> NoText, type |-> job.type,
     experience |-> job.experience, experience_level |-> NoText,
     description |-> job.description,
     requirements |-> List(job.requirements), skills |-> List(job.skills),
     remote |-> job.remote, is_remote |-> FALSE,
     created_at |-> job.created_at]

AsPayloads(js) == [i \in 1..Len(js) |-> AsPayload(js[i])]

Payloads ==
    {Payload(NoId, NoText, NoDate), Payload(NoId, "A", BadDate)}
    \cup {Payload(i, "A", 0) : i \in GivenIds}
    \cup {Payload(i, NoText, FutureDate) : i \in GivenIds}

PayloadSeqs ==
    UNION {[1..n -> Payloads] : n \in 0..MaxPayload}

\* Partial<Job> values handed to updateJob: a new title, or an object that
\* names the identity, timestamp and provenance fields
Overwrites ==
    {[id |-> i, created_at |-> FutureDate, updated_at |-> FutureDate,
      source |-> "api"] : i \in GivenIds}

Updates == {[title |-> x] : x \in Titles} \cup Overwrites

\* what handleCreateJob passes for a form with title and company filled in
JobData ==
    [title : {"A"}, company : {"B"}, location : {NoText},
     type : {"full-time"}, experience : {NoText}, description : {NoText},
     requirements : {<<>>}, skills : {<<>>}, remote : {FALSE},
     posted : {"Just now"}]

\* ids a caller passes: those it sees in the collection, and one no record has
ArgIds(js) == IdsOf(js) \cup {UnknownId}

IdSeqs(js) == UNION {[1..n -> ArgIds(js)] : n \in 0..MaxIds}

Passcodes == {ADMIN_PASSCODE, "000000"}

\* -------------------------------------------------------------- operations
IsAdmin(job) == job.source = "admin"

\* variant: the existing api jobs are kept and the new ones appended
replaceAPIJobs_merge(js, normalizedJobs) ==
    js \o normalizedJobs

\* this.jobs.filter(job => job.source === 'admin'); push(...normalizedJobs)
replaceAPIJobs(js, normalizedJobs) ==
    SelectSeq(js, IsAdmin) \o normalizedJobs

\* variant: the normalized records are put in front of the admin records
syncJobsFromAPI_externalsFirst(apiJobs) ==
    LET normalizedJobs == normalizeAPIJobs(apiJobs, now)
        js == normalizedJobs \o SelectSeq(jobs, IsAdmin)
    IN  /\ Len(js) <= MaxJobs
        /\ jobs' = js
        /\ saveToStorage(js)
        /\ last' = Call("syncJobsFromAPI", apiJobs, 0, TRUE)
        /\ UNCHANGED <<session, writable, now, shape, inflight>>

syncJobsFromAPI(apiJobs) ==
    LET normalizedJobs == normalizeAPIJobs(apiJobs, now)
        js == replaceAPIJobs(jobs, normalizedJobs)
    IN  /\ Len(js) <= MaxJobs
        /\ jobs' = js
        /\ saveToStorage(js)
        /\ last' = Call("syncJobsFromAPI", apiJobs, 0, TRUE)
        /\ UNCHANGED <<session, writable, now, shape, inflight>>

\* the sync that follows a fetched provider response
SyncFromProvider ==
    \E apiJobs \in PayloadSeqs : syncJobsFromAPI(apiJobs)

\* searchJobs() without forceAPI is getFilteredJobs('', {}): the whole
\* collection, which the panel then hands to syncJobsFromAPI
syncWithAPI ==
    LET apiJobs == getAllJobs
    IN  IF Len(apiJobs) > 0
        THEN syncJobsFromAPI(AsPayloads(apiJobs))
        ELSE UNCHANGED vars

newJobOf(jobData, id, created, updated) ==
    [title |-> jobData.title, company |-> jobData.company,
     location |-> jobData.location, type |-> jobData.type,
     experience |-> jobData.experience, description |-> jobData.description,
     requirements |-> jobData.requirements, skills |-> jobData.skills,
     remote |-> jobData.remote, posted |-> jobData.posted, id |-> id,
     created_at |-> created, updated_at |-> updated, source |-> "admin"]

\* variant: the new record is pushed at the end instead of unshifted
addJob_push(jobData, r) ==
    LET newJob == newJobOf(jobData, generateId(now, r), now, now)
        js == jobs \o <<newJob>>
    IN  /\ Len(js) <= MaxJobs
        /\ jobs' = js
        /\ saveToStorage(js)
        /\ last' = Call("addJob", jobData, newJob, TRUE)
        /\ UNCHANGED <<session, writable, now, shape, inflight>>

\* generateId and both timestamps read the clock within one call, which the
\* model takes to run within one clock instant
addJob(jobData, r) ==
    LET newJob == newJobOf(jobData, generateId(now, r), now, now)
        js == <<newJob>> \o jobs
    IN  /\ Len(js) <= MaxJobs
        /\ jobs' = js
        /\ saveToStorage(js)
        /\ last' = Call("addJob", jobData, newJob, TRUE)
        /\ UNCHANGED <<session, writable, now, shape, inflight>>

AddJob ==
    \E jobData \in JobData, r \in 0..(NumRand - 1) :
        addJob(jobData, r)

\* variant: created_at is stamped along with updated_at
merge_restamp(job, updates, t) ==
    [f \in DOMAIN job |->
        IF f \in {"updated_at", "created_at"} THEN t
        ELSE IF f \in DOMAIN updates THEN updates[f]
        ELSE job[f]]

\* {...job, ...updates, updated_at: new Date().toISOString()}
merge(job, updates, t) ==
    [f \in DOMAIN job |->
        IF f = "updated_at" THEN t
        ELSE IF f \in DOMAIN updates THEN updates[f]
        ELSE job[f]]

\* variant: the early return is missing its guard on the save
updateJob_saveAlways(id, updates) ==
    LET index == findIndex(jobs, id)
    IN  IF index = -1
        THEN /\ saveToStorage(jobs)
             /\ last' = Call("updateJob", [id |-> id, updates |-> updates],
                             Null, TRUE)
             /\ UNCHANGED <<jobs, session, writable, now, shape, inflight>>
        ELSE LET js == [jobs EXCEPT
                           ![index + 1] = merge(jobs[index + 1], updates, now)]
             IN  /\ jobs' = js
                 /\ saveToStorage(js)
                 /\ last' = Call("updateJob",
                                 [id |-> id, updates |-> updates],
                                 js[index + 1], TRUE)
                 /\ UNCHANGED <<session, writable, now, shape, inflight>>

updateJob(id, updates) ==
    LET index == findIndex(jobs, id)
    IN  IF index = -1
        THEN /\ last' = Call("updateJob", [id |-> id, updates |-> updates],
                             Null, FALSE)
             /\ UNCHANGED <<jobs, storage, session, writable, now, shape, inflight>>
        ELSE LET js == [jobs EXCEPT
                           ![index + 1] = merge(jobs[index + 1], updates, now)]
             IN  /\ jobs' = js
                 /\ saveToStorage(js)
                 /\ last' = Call("updateJob",
                                 [id |-> id, updates |-> updates],
                                 js[index + 1], TRUE)
                 /\ UNCHANGED <<session, writable, now, shape, inflight>>

UpdateJob ==
    \E id \in ArgIds(jobs), updates \in Updates :
        updateJob(id, updates)

\* this.jobs.filter(job => job.id !== id)
withoutId(js, id) ==
    LET Keep(job) == job.id # id IN SelectSeq(js, Keep)

\* variant: the save is not guarded by the length comparison
deleteJob_saveAlways(id) ==
    LET initialLength == Len(jobs)
        js == withoutId(jobs, id)
    IN  /\ jobs' = js
        /\ saveToStorage(js)
        /\ last' = Call("deleteJob", id, Len(js) < initialLength, TRUE)
        /\ UNCHANGED <<session, writable, now, shape, inflight>>

deleteJob(id) ==
    LET initialLength == Len(jobs)
        js == withoutId(jobs, id)
    IN  /\ jobs' = js
        /\ IF Len(js) < initialLength
           THEN /\ saveToStorage(js)
                /\ last' = Call("deleteJob", id, TRUE, TRUE)
           ELSE /\ UNCHANGED storage
                /\ last' = Call("deleteJob", id, FALSE, FALSE)
        /\ UNCHANGED <<session, writable, now, shape, inflight>>

DeleteJob ==
    \E id \in ArgIds(jobs) : deleteJob(id)

\* this.jobs.filter(job => !ids.includes(job.id))
withoutIds(js, ids) ==
    LET Keep(job) == job.id \notin Range(ids) IN SelectSeq(js, Keep)

deleteJobs(ids) ==
    LET initialLength == Len(jobs)
        js == withoutIds(jobs, ids)
        deletedCount == initialLength - Len(js)
    IN  /\ jobs' = js
        /\ IF deletedCount > 0
           THEN /\ saveToStorage(js)
                /\ last' = Call("deleteJobs", ids, deletedCount, TRUE)
           ELSE /\ UNCHANGED storage
                /\ last' = Call("deleteJobs", ids, deletedCount, FALSE)
        /\ UNCHANGED <<session, writable, now, shape, inflight>>

DeleteJobs ==
    \E ids \in IdSeqs(jobs) : deleteJobs(ids)

\* variant: the save is skipped when nothing was deleted
deleteAllJobs_saveIfAny ==
    LET deletedCount == Len(jobs)
    IN  /\ jobs' = <<>>
        /\ IF deletedCount > 0 THEN saveToStorage(<<>>) ELSE UNCHANGED storage
        /\ last' = Call("deleteAllJobs", <<>>, deletedCount, deletedCount > 0)
        /\ UNCHANGED <<session, writable, now, shape, inflight>>

deleteAllJobs ==
    LET deletedCount == Len(jobs)
    IN  /\ jobs' = <<>>
        /\ saveToStorage(<<>>)
        /\ last' = Call("deleteAllJobs", <<>>, deletedCount, TRUE)
        /\ UNCHANGED <<session, writable, now, shape, inflight>>


\* variant: every passcode is accepted
authenticateAdmin_anyPasscode(passcode) ==
    /\ session' = "true"
    /\ last' = Call("authenticateAdmin", passcode, TRUE, FALSE)
    /\ UNCHANGED <<jobs, storage, writable, now, shape, inflight>>

authenticateAdmin(passcode) ==
    /\ IF passcode = ADMIN_PASSCODE
       THEN /\ session' = "true"
            /\ last' = Call("authenticateAdmin", passcode, TRUE, FALSE)
       ELSE /\ UNCHANGED session
            /\ last' = Call("authenticateAdmin", passcode, FALSE, FALSE)
    /\ UNCHANGED <<jobs, storage, writable, now, shape, inflight>>

AuthenticateAdmin == \E passcode \in Passcodes : authenticateAdmin(passcode)

\* variant: logout clears the whole store instead of removing its own key
logoutAdmin_clearAll ==
    /\ session' = "absent"
    /\ storage' = [kind |-> "absent", value |-> <<>>]
    /\ last' = Call("logoutAdmin", <<>>, 0, FALSE)
    /\ UNCHANGED <<jobs, writable, now, shape, inflight>>

logoutAdmin ==
    /\ session' = "absent"
    /\ last' = Call("logoutAdmin", <<>>, 0, FALSE)
    /\ UNCHANGED <<jobs, storage, writable, now, shape, inflight>>

Next ==
    \/ Tick
    \/ SyncFromProvider
    \/ syncWithAPI
    \/ AddJob
    \/ UpdateJob
    \/ DeleteJob
    \/ DeleteJobs
    \/ deleteAllJobs

Spec == Init /\ [][Next]_vars

\* ----------------------------------------------- the queries on a catalog
FilterJob(n, src, title, company, descr, skills, loc, type, exp, remote) ==
    [id |-> GivenId(n), title |-> title, company |-> company,
     location |-> loc, type |-> type, experience |-> exp,
     description |-> descr, requirements |-> <<>>, skills |-> skills,
     remote |-> remote, posted |-> "Just now", created_at |-> 0,
     updated_at |-> 0, source |-> src]

\* records that differ in every field the filters read
FilterJobs ==
    { FilterJob(1, "admin", "A", "B", "", <<>>, "Ab", "full-time", "a", FALSE),
      FilterJob(2, "api", "b", "x", "A", <<"a", "x">>, "x", "contract", "x",
                TRUE),
      FilterJob(3, "api", "x", "x", "x", <<"Ab">>, "B", "full-time", "A", TRUE),
      FilterJob(4, "admin", "x", "x", "a b", <<>>, "", "full", "", FALSE),
      FilterJob(5, "api", "x", "x", "", <<"x">>, "a", "contract", "b", FALSE),
      FilterJob(6, "admin", "Ab", "A", "x", <<"B", "x">>, "b", "full", "Ab",
                TRUE) }

FilterCatalogs ==
    UNION {[1..n -> FilterJobs] : n \in 0..MaxJobs}

Queries == {NoText, "a", "B", "a b"}

FiltersWithoutRemote ==
    [location : {NoText, "b"}, type : {NoText, "full"},
     experience : {NoText, "A"}, skills : {<<>>, <<"A", "b">>}]

FiltersSet ==
    FiltersWithoutRemote \cup
    {[remote |-> r] @@ f : r \in BOOLEAN, f \in FiltersWithoutRemote}

\* a store constructed over a persisted catalog
InitFilter ==
    /\ jobs \in FilterCatalogs
    /\ storage = [kind |-> "array", value |-> jobs]
    /\ session = "absent"
    /\ writable = TRUE
    /\ now = 0
    /\ shape = "array"
    /\ inflight = <<>>
    /\ last = [op |-> "init", arg |-> <<>>, ret |-> 0, wrote |-> FALSE,
               ok |-> TRUE, t |-> 0, pre |-> jobs, store |-> storage,
               sess |-> "absent", raised |-> FALSE]

GetFilteredJobs ==
    \E query \in Queries, filters \in FiltersSet :
        /\ last' = Call("getFilteredJobs",
                        [query |-> query, filters |-> filters],
                        getFilteredJobs(query, filters), FALSE)
        /\ UNCHANGED <<jobs, storage, session, writable, now, shape, inflight>>

NextFilter == GetFilteredJobs

SpecFilter == InitFilter /\ [][NextFilter]_vars

\* ------------------------------------------- the catalog behind the gate
\* what the session key may hold when the page loads: nothing, the value
\* authenticateAdmin writes, or some other string
Sessions == {"absent", "true", "false"}

InitAuth ==
    /\ jobs = <<>>
    /\ storage = [kind |-> "absent", value |-> <<>>]
    /\ session \in Sessions
    /\ writable = TRUE
    /\ now = 0
    /\ shape = "array"
    /\ inflight = <<>>
    /\ last = [op |-> "init", arg |-> <<>>, ret |-> 0, wrote |-> FALSE,
               ok |-> TRUE, t |-> 0, pre |-> <<>>,
               store |-> [kind |-> "absent", value |-> <<>>],
               sess |-> session, raised |-> FALSE]

GetAllJobs ==
    /\ last' = Call("getAllJobs", <<>>, getAllJobs, FALSE)
    /\ UNCHANGED <<jobs, storage, session, writable, now, shape, inflight>>

NextAuth ==
    \/ AuthenticateAdmin
    \/ logoutAdmin
    \/ SyncFromProvider
    \/ syncWithAPI
    \/ AddJob
    \/ UpdateJob
    \/ DeleteJob
    \/ DeleteJobs
    \/ deleteAllJobs
    \/ GetAllJobs

SpecAuth == InitAuth /\ [][NextAuth]_vars

\* ------------------------------------ construction over a persisted value
\* what getItem(STORAGE_KEY) may give other than a stored catalog: nothing
\* (null or ''), an exception, text JSON.parse rejects, or the JSON text of
\* null, of a number, of an object
BadStored == {"absent", "unreadable", "unparseable", "null", "number",
              "object"}

\* the value of this.jobs once the constructor has run
loadFromStorage(stored) ==
    CASE stored.kind = "absent"      -> [shape |-> "array", jobs |-> <<>>]
      [] stored.kind = "unreadable"  -> [shape |-> "array", jobs |-> <<>>]
      [] stored.kind = "unparseable" -> [shape |-> "array", jobs |-> <<>>]
      [] stored.kind = "array" -> [shape |-> "array", jobs |-> stored.value]
      [] OTHER -> [shape |-> stored.kind, jobs |-> <<>>]

InitLoad ==
    /\ storage \in [kind : BadStored, value : {<<>>}]
    /\ jobs = loadFromStorage(storage).jobs
    /\ shape = loadFromStorage(storage).shape
    /\ inflight = <<>>
    /\ session = "absent"
    /\ writable = TRUE
    /\ now = 0
    /\ last = [op |-> "init", arg |-> <<>>, ret |-> 0, wrote |-> FALSE,
               ok |-> TRUE, t |-> 0, pre |-> <<>>, store |-> storage,
               sess |-> "absent", raised |-> FALSE]

\* a TypeError leaves the call: this.jobs is null, or has no such method, or
\* is not iterable
Throw(op) ==
    /\ last' = [Call(op, <<>>, 0, FALSE) EXCEPT !.raised = TRUE]
    /\ UNCHANGED <<jobs, storage, session, writable, now, shape, inflight>>

GetAllJobsAfterLoad ==
    IF shape = "array" THEN GetAllJobs ELSE Throw("getAllJobs")

GetJobStatsAfterLoad ==
    IF shape = "array"
    THEN /\ last' = Call("getJobStats", <<>>, getJobStats, FALSE)
         /\ UNCHANGED <<jobs, storage, session, writable, now, shape, inflight>>
    ELSE Throw("getJobStats")

SyncAfterLoad ==
    IF shape = "array" THEN SyncFromProvider ELSE Throw("syncJobsFromAPI")

AddJobAfterLoad ==
    IF shape = "array" THEN AddJob ELSE Throw("addJob")

UpdateJobAfterLoad ==
    IF shape = "array" THEN UpdateJob ELSE Throw("updateJob")

DeleteJobAfterLoad ==
    IF shape = "array" THEN DeleteJob ELSE Throw("deleteJob")

DeleteJobsAfterLoad ==
    IF shape = "array" THEN DeleteJobs ELSE Throw("deleteJobs")

\* a number or an object has no length: the count is undefined, and the
\* collection is replaced by [] all the same
DeleteAllJobsAfterLoad ==
    IF shape = "array" THEN deleteAllJobs
    ELSE IF shape = "null" THEN Throw("deleteAllJobs")
    ELSE /\ jobs' = <<>>
         /\ shape' = "array"
         /\ UNCHANGED inflight
         /\ saveToStorage(<<>>)
         /\ last' = Call("deleteAllJobs", <<>>, "undefined", TRUE)
         /\ UNCHANGED <<session, writable, now, inflight>>

NextLoad ==
    \/ GetAllJobsAfterLoad
    \/ GetJobStatsAfterLoad
    \/ SyncAfterLoad
    \/ AddJobAfterLoad
    \/ UpdateJobAfterLoad
    \/ DeleteJobAfterLoad
    \/ DeleteJobsAfterLoad
    \/ DeleteAllJobsAfterLoad

SpecLoad == InitLoad /\ [][NextLoad]_vars

\* ------------------------------------------- a store that refuses writes
\* the page may load with a localStorage whose setItem throws on every call
\* (storage disabled, or its quota used up by other keys)
InitFail ==
    /\ jobs = <<>>
    /\ storage = [kind |-> "absent", value |-> <<>>]
    /\ session = "absent"
    /\ writable \in BOOLEAN
    /\ now = 0
    /\ shape = "array"
    /\ inflight = <<>>
    /\ last = [op |-> "init", arg |-> <<>>, ret |-> 0, wrote |-> FALSE,
               ok |-> writable, t |-> 0, pre |-> <<>>,
               store |-> [kind |-> "absent", value |-> <<>>],
               sess |-> "absent", raised |-> FALSE]

NextFail ==
    \/ SyncFromProvider
    \/ AddJob
    \/ UpdateJob
    \/ DeleteJob
    \/ DeleteJobs
    \/ deleteAllJobs

SpecFail == InitFail /\ [][NextFail]_vars

\* ---------------------------------- a store that accepts writes again
\* setItem stops throwing (room was made under the quota)
StorageRecovers ==
    /\ ~writable
    /\ writable' = TRUE
    /\ last' = [Call("recover", <<>>, 0, FALSE) EXCEPT !.ok = TRUE]
    /\ UNCHANGED <<jobs, storage, session, now, shape, inflight>>

NextPersist ==
    \/ StorageRecovers
    \/ SyncFromProvider
    \/ AddJob
    \/ UpdateJob
    \/ DeleteJob
    \/ DeleteJobs
    \/ deleteAllJobs

SpecPersist == InitFail /\ [][NextPersist]_vars

\* ------------------------------------------- the list fields at ingestion
\* the create form with title and company filled in and some text typed
\* into the requirements and skills inputs
FormData ==
    [title : {"A"}, company : {"B"}, requirements : {NoText, "x", " x,"},
     skills : {NoText, " x,"}]

handleCreateJob(formData, r) ==
    /\ formData.title # NoText
    /\ formData.company # NoText
    /\ addJob([title |-> formData.title, company |-> formData.company,
               location |-> NoText, type |-> "full-time",
               experience |-> NoText, description |-> NoText,
               requirements |-> splitTrimFilter(formData.requirements),
               skills |-> splitTrimFilter(formData.skills),
               remote |-> FALSE, posted |-> "Just now"], r)

HandleCreateJob ==
    \E formData \in FormData, r \in 0..(NumRand - 1) :
        handleCreateJob(formData, r)

\* payloads whose list fields the provider filled carelessly
ListPayloads ==
    { [Payload(NoId, "A", NoDate) EXCEPT !.skills = List(<<"", " x">>)],
      [Payload(NoId, "A", NoDate) EXCEPT !.requirements = List(<<"x">>)],
      [Payload(NoId, NoText, NoDate) EXCEPT !.skills = List(<<"x">>),
                                            !.requirements = List(<<" x">>)] }

SyncLists ==
    \E apiJobs \in UNION {[1..n -> ListPayloads] : n \in 0..MaxPayload} :
        syncJobsFromAPI(apiJobs)

NextIngest ==
    \/ Tick
    \/ HandleCreateJob
    \/ SyncLists
    \/ DeleteJob

SpecIngest == Init /\ [][NextIngest]_vars

\* ------------------------------------------------------ the posting age
MaxDays == 61

Instants == [day : 0..MaxDays, ms : {0, 1}]

\* a payload's created_at and the clock reading formatDate will see
InitDate ==
    /\ jobs = <<>>
    /\ storage = [kind |-> "absent", value |-> <<>>]
    /\ session = "absent"
    /\ writable = TRUE
    /\ now = 0
    /\ shape = "array"
    /\ inflight = <<>>
    /\ \E date \in Instants, nowDate \in Instants :
           last = [op |-> "init", arg |-> [date |-> date, now |-> nowDate],
                   ret |-> 0, wrote |-> FALSE, ok |-> TRUE, t |-> 0,
                   pre |-> <<>>,
                   store |-> [kind |-> "absent", value |-> <<>>],
                   sess |-> "absent", raised |-> FALSE]

FormatDate ==
    /\ last.op = "init"
    /\ last' = Call("formatDate", last.arg,
                    formatInstant(last.arg.date, last.arg.now), FALSE)
    /\ UNCHANGED <<jobs, storage, session, writable, now, shape, inflight>>

NextDate == FormatDate

SpecDate == InitDate /\ [][NextDate]_vars

\* ------------------------------------ the panel's edits of descriptive fields
\* handleEditJob passes the form's fields and none of id, source, created_at
\* or updated_at; the title stands for the descriptive fields
EditJob ==
    \E id \in ArgIds(jobs), title \in Titles :
        updateJob(id, [title |-> title])

NextOrder ==
    \/ Tick
    \/ SyncFromProvider
    \/ syncWithAPI
    \/ AddJob
    \/ EditJob
    \/ DeleteJob
    \/ DeleteJobs
    \/ deleteAllJobs

SpecOrder == Init /\ [][NextOrder]_vars

\* ------------------------------------------- the forced search and its fetch
MaxFetches == 2

SearchArgs ==
    { [query |-> NoText, filters |-> NoFilters],
      [query |-> NoText, filters |-> [NoFilters EXCEPT !.location = "Location"]] }

\* how the fetch of a forced search can end without a synced payload: fetch
\* rejects, the response is not ok, response.json() rejects, or the decoded
\* data makes normalizeAPIJobs throw (an element that is null, a job list
\* that is not an array)
FetchFailures == {"network", "status", "body", "payload"}

Without(s, i) == SubSeq(s, 1, i - 1) \o SubSeq(s, i + 1, Len(s))

\* searchJobs(query, filters, true) up to its await of fetch; the entry
\* for the pending call also notes the time of the call
StartSearch ==
    \E args \in SearchArgs :
        /\ Len(inflight) < MaxFetches
        /\ inflight' = Append(inflight,
                               [query |-> args.query, filters |-> args.filters,
                                at |-> now])
        /\ last' = Call("fetch", args, 0, FALSE)
        /\ UNCHANGED <<jobs, storage, session, writable, now, shape>>

\* variant: the catch branch drops the external records before it answers
searchFailed_dropExternals(i, cause) ==
    /\ inflight' = Without(inflight, i)
    /\ jobs' = SelectSeq(jobs, IsAdmin)
    /\ last' = Call("searchJobs",
                    [query |-> inflight[i].query,
                     filters |-> inflight[i].filters, response |-> cause,
                     payload |-> <<>>, at |-> inflight[i].at],
                    getFilteredJobs(inflight[i].query, inflight[i].filters),
                    FALSE)
    /\ UNCHANGED <<storage, session, writable, now, shape>>

\* the catch branch: the error is logged and the local view returned
searchFailed(i, cause) ==
    /\ inflight' = Without(inflight, i)
    /\ last' = Call("searchJobs",
                    [query |-> inflight[i].query,
                     filters |-> inflight[i].filters, response |-> cause,
                     payload |-> <<>>, at |-> inflight[i].at],
                    getFilteredJobs(inflight[i].query, inflight[i].filters),
                    FALSE)
    /\ UNCHANGED <<jobs, storage, session, writable, now, shape>>

SearchFails ==
    \E i \in 1..Len(inflight), cause \in FetchFailures : searchFailed(i, cause)

\* variant: only the admin records that were there when the search was
\* called (created no later than the call) are kept
searchSynced_staleLocals(i, apiJobs) ==
    \E args \in {inflight[i]} :
        LET normalizedJobs == normalizeAPIJobs(apiJobs, now)
            Known(job) == IsAdmin(job) /\ job.created_at <= args.at
            js == SelectSeq(jobs, Known) \o normalizedJobs
        IN  /\ Len(js) <= MaxJobs
            /\ inflight' = Without(inflight, i)
            /\ jobs' = js
            /\ saveToStorage(js)
            /\ last' = [Call("searchJobs",
                             [query |-> args.query, filters |-> args.filters,
                              response |-> "ok", payload |-> apiJobs,
                              at |-> args.at],
                             0, TRUE)
                        EXCEPT !.ret =
                            getFilteredJobs(args.query, args.filters)']
            /\ UNCHANGED <<session, writable, now, shape>>

\* the fetch delivered a job list: it is synced and the local view returned
searchSynced(i, apiJobs) ==
    LET normalizedJobs == normalizeAPIJobs(apiJobs, now)
        js == replaceAPIJobs(jobs, normalizedJobs)
    IN  \E args \in {inflight[i]} :
            /\ Len(js) <= MaxJobs
            /\ inflight' = Without(inflight, i)
            /\ jobs' = js
            /\ saveToStorage(js)
            /\ last' = [Call("searchJobs",
                             [query |-> args.query, filters |-> args.filters,
                              response |-> "ok", payload |-> apiJobs,
                              at |-> args.at],
                             0, TRUE)
                        EXCEPT !.ret =
                            getFilteredJobs(args.query, args.filters)']
            /\ UNCHANGED <<session, writable, now, shape>>

SearchSyncs ==
    \E i \in 1..Len(inflight), apiJobs \in PayloadSeqs : searchSynced(i, apiJobs)

NextFetch ==
    \/ StartSearch
    \/ SearchFails
    \/ SearchSyncs
    \/ AddJob
    \/ DeleteJob

SpecFetch == Init /\ [][NextFetch]_vars

\* ------------------------------- admin calls while searches are in flight
\* the job lists a provider delivers to the overlapping searches
OverlapPayloads == {<<>>, <<Payload(GivenId(1), "A", 0)>>}

SearchSyncsOverlapping ==
    \E i \in 1..Len(inflight), apiJobs \in OverlapPayloads :
        searchSynced(i, apiJobs)

NextOverlap ==
    \/ Tick
    \/ StartSearch
    \/ SearchFails
    \/ SearchSyncsOverlapping
    \/ AddJob
    \/ EditJob
    \/ DeleteJob
    \/ DeleteJobs
    \/ deleteAllJobs

SpecOverlap == Init /\ [][NextOverlap]_vars

\* ------------------------------------------------------------ properties
Locals(js) == SelectSeq(js, IsAdmin)

IsExternal(job) == job.source # "admin"

Externals(js) == SelectSeq(js, IsExternal)

Stored(js) == [kind |-> "array", value |-> js]

\* the records of js whose id is not in the set S, in their order in js
Except(js, S) ==
    LET Keep(job) == job.id \notin S IN SelectSeq(js, Keep)

\* C1: no two records of the collection share an id.
C1_UniqueIds ==
    \A i, k \in 1..Len(jobs) : i # k => jobs[i].id # jobs[k].id

\* C2: a sync keeps the N local records unchanged and in order, and the
\* external records are exactly the K records normalized from the payloads,
\* each freshly stamped; the id of an external record from before is found
\* afterwards only if the new batch carries it (given by a payload, or
\* synthesized again for a payload without id at the same instant and index).
C2_SyncReplacesExternals ==
    last.op = "syncJobsFromAPI" =>
        LET K == Len(last.arg)
            ext == Externals(jobs)
        IN  /\ Locals(jobs) = Locals(last.pre)
            /\ Len(jobs) = Len(Locals(last.pre)) + K
            /\ Len(ext) = K
            /\ \A k \in 1..K :
                  /\ ext[k].updated_at = last.t
                  /\ last.arg[k].id # NoId => ext[k].id = last.arg[k].id
            /\ \A r \in Range(Externals(last.pre)) :
                  r \in Range(jobs) =>
                      \E k \in 1..K :
                          \/ last.arg[k].id = r.id
                          \/ /\ last.arg[k].id = NoId
                             /\ r.id = ApiJobId(last.t, k - 1)

C2_Witness ==
    /\ last.op = "syncJobsFromAPI"
    /\ Len(Locals(last.pre)) > 0
    /\ Len(Externals(last.pre)) > 0
    /\ Len(last.arg) > 0
    /\ Externals(jobs) # Externals(last.pre)

\* C3: an update that names only the title changes the title and updated_at
\* of one record and nothing else, and updated_at does not go back.
C3_TitleUpdateFrame ==
    (/\ last.op = "updateJob"
     /\ last.arg.id \in IdsOf(last.pre)
     /\ DOMAIN last.arg.updates = {"title"}) =>
        /\ Len(jobs) = Len(last.pre)
        /\ \E i \in 1..Len(jobs) :
              /\ last.pre[i].id = last.arg.id
              /\ \A k \in 1..Len(jobs) : k # i => jobs[k] = last.pre[k]
              /\ \A f \in DOMAIN jobs[i] \ {"title", "updated_at"} :
                    jobs[i][f] = last.pre[i][f]
              /\ jobs[i].title = last.arg.updates.title
              /\ jobs[i].updated_at >= last.pre[i].updated_at

C3_Witness ==
    /\ last.op = "updateJob"
    /\ DOMAIN last.arg.updates = {"title"}
    /\ Len(last.pre) = 2
    /\ \E i \in 1..Len(jobs) :
          /\ last.pre[i].id = last.arg.id
          /\ jobs[i].title # last.pre[i].title
          /\ jobs[i].updated_at > last.pre[i].updated_at

\* C4: whatever fields an update names, the updated record keeps its id,
\* created_at and provenance, and its updated_at is the current time.
C4_UpdateKeepsIdentity ==
    (last.op = "updateJob" /\ last.arg.id \in IdsOf(last.pre)) =>
        LET i == findIndex(last.pre, last.arg.id) + 1
        IN  /\ jobs[i].id = last.pre[i].id
            /\ jobs[i].created_at = last.pre[i].created_at
            /\ jobs[i].source = last.pre[i].source
            /\ jobs[i].updated_at = last.t

\* C5: an add assigns an id that no record already in the collection has.
C5_AddAssignsFreshId ==
    last.op = "addJob" => last.ret.id \notin IdsOf(last.pre)

\* C6: deleting an id no record has returns false, leaves the collection
\* unchanged and does not write to the store.
C6_DeleteUnknown ==
    (last.op = "deleteJob" /\ last.arg \notin IdsOf(last.pre)) =>
        /\ last.ret = FALSE
        /\ jobs = last.pre
        /\ ~last.wrote
        /\ storage = last.store

C6_Witness ==
    /\ last.op = "deleteJob"
    /\ last.arg \notin IdsOf(last.pre)
    /\ Len(last.pre) > 0
    /\ last.ret = FALSE

\* C7: deleting an id that is present returns true, removes exactly one
\* record, keeps the others in order and persists the result.
C7_DeleteRemovesOne ==
    (last.op = "deleteJob" /\ last.arg \in IdsOf(last.pre)) =>
        /\ last.ret = TRUE
        /\ Len(jobs) = Len(last.pre) - 1
        /\ jobs = Except(last.pre, {last.arg})
        /\ last.wrote
        /\ last.ok => storage = Stored(jobs)

\* C8: updating an id no record has returns null, leaves the collection
\* unchanged and does not write to the store.
C8_UpdateUnknown ==
    (last.op = "updateJob" /\ last.arg.id \notin IdsOf(last.pre)) =>
        /\ last.ret = Null
        /\ jobs = last.pre
        /\ ~last.wrote
        /\ storage = last.store

C8_Witness ==
    /\ last.op = "updateJob"
    /\ last.arg.id \notin IdsOf(last.pre)
    /\ Len(last.pre) > 0
    /\ last.ret = Null

\* C9: deleteJobs removes exactly the records whose id is listed, returns
\* the number of distinct listed ids that were present, and writes to the
\* store exactly when that number is positive.
C9_DeleteManyCount ==
    last.op = "deleteJobs" =>
        LET present == Range(last.arg) \cap IdsOf(last.pre)
        IN  /\ jobs = Except(last.pre, Range(last.arg))
            /\ last.ret = Cardinality(present)
            /\ last.wrote <=> Cardinality(present) > 0

\* C10: deleteAll empties the collection, returns its prior size and writes
\* the empty collection to the store on every call.
C10_DeleteAll ==
    last.op = "deleteAllJobs" =>
        /\ jobs = <<>>
        /\ last.ret = Len(last.pre)
        /\ last.wrote
        /\ last.ok => storage = Stored(<<>>)

C10_Witness ==
    /\ last.op = "deleteAllJobs"
    /\ Len(Locals(last.pre)) > 0
    /\ Len(Externals(last.pre)) > 0
    /\ storage = Stored(<<>>)

\* C11: add returns a local record stamped with the current time at both
\* timestamps; right after the call it is the first record of getAllJobs,
\* getJobById of its id yields it, and the records present before follow it
\* unchanged in their order.
C11_AddInsertsFirst ==
    last.op = "addJob" =>
        /\ last.ret.source = "admin"
        /\ last.ret.created_at = last.t
        /\ last.ret.updated_at = last.t
        /\ Len(getAllJobs) = Len(last.pre) + 1
        /\ Head(getAllJobs) = last.ret
        /\ getJobById(jobs, last.ret.id) = last.ret
        /\ Tail(getAllJobs) = last.pre

C11_Witness ==
    /\ last.op = "addJob"
    /\ Len(last.pre) > 0
    /\ last.t > 0
    /\ jobs[1] = last.ret
    /\ jobs[2] = last.pre[1]

\* C12: in every reachable catalog state the total of getJobStats is the
\* length of getAllJobs, and the external and local counts add up to it.
C12_StatsAddUp ==
    /\ getJobStats.total = Len(getAllJobs)
    /\ getJobStats.apiJobs + getJobStats.adminJobs = getJobStats.total

C12_Witness ==
    /\ getJobStats.apiJobs = 1
    /\ getJobStats.adminJobs = 1
    /\ getJobStats.total = 2
    /\ Len(getAllJobs) = 2

\* sub occurs in cs at offset i, letter case ignored
OccursAt(cs, sub, i) ==
    /\ i + Len(sub) <= Len(cs)
    /\ \A k \in 1..Len(sub) : Lower(cs[i + k]) = Lower(sub[k])

\* sub is a substring of s, compared case-insensitively
CIContains(s, sub) ==
    \E i \in 0..Len(Chars(s)) : OccursAt(Chars(s), Chars(sub), i)

\* the free-text condition of the catalog-level search: the query occurs in
\* the record's title, company, description and skills written one after
\* another with a space between
MatchesText(job, query) ==
    LET text == Chars(job.title) \o <<" ">> \o Chars(job.company) \o <<" ">>
                \o Chars(job.description) \o <<" ">> \o join(job.skills)
    IN  \E i \in 0..Len(text) : OccursAt(text, Chars(query), i)

Satisfies(job, query, filters) ==
    /\ query # NoText => MatchesText(job, query)
    /\ filters.location # NoText => CIContains(job.location, filters.location)
    /\ filters.type # NoText => job.type = filters.type
    /\ filters.experience # NoText =>
           CIContains(job.experience, filters.experience)
    /\ "remote" \in DOMAIN filters => job.remote = filters.remote
    /\ filters.skills # <<>> =>
           \E want \in Range(filters.skills), have \in Range(job.skills) :
               CIContains(have, want)

\* C13: getFilteredJobs returns exactly the records that satisfy every
\* specified condition at once (remote as an exact match, false included;
\* skills when any desired skill occurs in any skill of the record), each
\* once and in the order of the collection; an unspecified condition filters
\* nothing.
C13_FilterIsConjunction ==
    last.op = "getFilteredJobs" =>
        /\ \E keep \in SUBSET (1..Len(jobs)) :
               /\ keep = {i \in 1..Len(jobs) :
                            Satisfies(jobs[i], last.arg.query,
                                      last.arg.filters)}
               /\ Len(last.ret) = Cardinality(keep)
               /\ \A n \in 1..Len(last.ret) :
                      \E i \in keep :
                          /\ Cardinality({m \in keep : m < i}) = n - 1
                          /\ last.ret[n] = jobs[i]
        /\ (last.arg.query = NoText /\ last.arg.filters = NoFilters)
               => last.ret = jobs

\* a query and remote = false together keep one record and drop another
C13_Witness ==
    /\ last.op = "getFilteredJobs"
    /\ last.arg.query # NoText
    /\ "remote" \in DOMAIN last.arg.filters
    /\ ~last.arg.filters.remote
    /\ Len(jobs) = 2
    /\ last.ret = <<jobs[2]>>
    /\ jobs[1].remote

\* the query occurs, letter case ignored, inside one field alone
MatchesSingleField(job, query) ==
    \/ CIContains(job.title, query)
    \/ CIContains(job.company, query)
    \/ CIContains(job.description, query)
    \/ \E skill \in Range(job.skills) : CIContains(skill, query)

\* C14: for a non-empty query and no filters, getFilteredJobs returns a
\* record if and only if the query is a case-insensitive substring of one
\* single field among title, company, description and the skill strings.
C14_QueryWithinOneField ==
    (/\ last.op = "getFilteredJobs"
     /\ last.arg.query # NoText
     /\ last.arg.filters = NoFilters)
        => last.ret = SelectSeq(jobs, LAMBDA job :
                                    MatchesSingleField(job, last.arg.query))

AuthOps == {"authenticateAdmin", "logoutAdmin"}

\* C15: whatever the session flag holds, authenticateAdmin with the passcode
\* returns true and isAdminAuthenticated is then true; logoutAdmin makes it
\* false; authenticateAdmin with another passcode returns false and does not
\* turn isAdminAuthenticated from false to true.
C15_AuthRoundTrip ==
    /\ (last.op = "authenticateAdmin" /\ last.arg = ADMIN_PASSCODE)
           => (last.ret = TRUE /\ isAdminAuthenticated)
    /\ last.op = "logoutAdmin" => ~isAdminAuthenticated
    /\ (last.op = "authenticateAdmin" /\ last.arg # ADMIN_PASSCODE)
           => /\ last.ret = FALSE
              /\ isAdminAuthenticated => last.sess = "true"

\* a wrong passcode was refused while no session existed
C15_Witness ==
    /\ last.op = "authenticateAdmin"
    /\ last.arg # ADMIN_PASSCODE
    /\ last.sess # "true"
    /\ last.ret = FALSE
    /\ ~isAdminAuthenticated

\* C16: the session flag changes only by a successful authenticateAdmin
\* (set) and by logoutAdmin (cleared): a refused passcode leaves it as it
\* was and no catalog operation or query touches it; the gate's operations
\* never change the collection or its stored copy.
C16_SessionFrame ==
    /\ (last.op \notin AuthOps /\ last.op # "init") => session = last.sess
    /\ (last.op = "authenticateAdmin" /\ last.ret = FALSE)
           => session = last.sess
    /\ (last.op = "authenticateAdmin" /\ last.ret = TRUE) => session = "true"
    /\ last.op = "logoutAdmin" => session = "absent"
    /\ last.op \in AuthOps => (jobs = last.pre /\ storage = last.store)

\* a refused passcode left an existing session and a stored catalog in place
C16_Witness ==
    /\ last.op = "authenticateAdmin"
    /\ last.ret = FALSE
    /\ last.sess = "true"
    /\ session = "true"
    /\ Len(jobs) > 0
    /\ storage = Stored(jobs)

\* C17: a store constructed over an absent, unreadable or non-array
\* persisted value starts with an empty collection, and no public
\* operation on it raises.
C17_LoadRecovers ==
    /\ last.op = "init" => (shape = "array" /\ jobs = <<>>)
    /\ ~last.raised

\* C18: when the write of a mutating operation fails, the call does not
\* raise and returns its normal result, and the collection in memory, which
\* every later query reads, carries the mutation.
C18_WriteFailureIsSilent ==
    (last.wrote /\ ~last.ok) =>
        /\ ~last.raised
        /\ storage = last.store
        /\ last.op = "addJob" =>
               /\ last.ret.source = "admin"
               /\ getAllJobs = <<last.ret>> \o last.pre
               /\ getJobById(jobs, last.ret.id) = last.ret
               /\ getJobStats.total = Len(last.pre) + 1
        /\ last.op = "updateJob" =>
               /\ last.ret.updated_at = last.t
               /\ Len(getAllJobs) = Len(last.pre)
               /\ \E i \in 1..Len(jobs) :
                      /\ last.pre[i].id = last.arg.id
                      /\ jobs[i] = merge(last.pre[i], last.arg.updates, last.t)
                      /\ jobs[i] = last.ret
                      /\ \A k \in 1..(i - 1) : last.pre[k].id # last.arg.id
                      /\ \A k \in 1..Len(jobs) : k # i => jobs[k] = last.pre[k]
        /\ last.op = "deleteJob" =>
               /\ last.ret = TRUE
               /\ getAllJobs = SelectSeq(last.pre,
                                         LAMBDA job : job.id # last.arg)
        /\ last.op = "deleteJobs" =>
               /\ last.ret = Len(last.pre) - Len(getAllJobs)
               /\ getAllJobs = SelectSeq(last.pre,
                                LAMBDA job : job.id \notin Range(last.arg))
        /\ last.op = "deleteAllJobs" =>
               /\ last.ret = Len(last.pre)
               /\ getAllJobs = <<>>
        /\ last.op = "syncJobsFromAPI" =>
               /\ Locals(getAllJobs) = Locals(last.pre)
               /\ Externals(getAllJobs) = normalizeAPIJobs(last.arg, last.t)
               /\ getJobStats.apiJobs = Len(last.arg)

\* an update went through in memory while the store refused the write
C18_Witness ==
    /\ last.op = "updateJob"
    /\ last.wrote
    /\ ~last.ok
    /\ ~last.raised
    /\ last.ret # Null
    /\ Len(jobs) = 2
    /\ storage.kind = "absent"

\* C19: a forced search whose fetch fails (or never completes) leaves the
\* collection and its stored copy exactly as they were, externals included,
\* and answers with getFilteredJobs(query, filters) of that collection.
C19_FailedFetchChangesNothing ==
    /\ last.op = "fetch" => (jobs = last.pre /\ storage = last.store)
    /\ (last.op = "searchJobs" /\ last.arg.response \in FetchFailures) =>
           /\ jobs = last.pre
           /\ storage = last.store
           /\ Externals(jobs) = Externals(last.pre)
           /\ ~last.raised
           /\ last.ret = getFilteredJobs(last.arg.query, last.arg.filters)

\* a fetch failed over a catalog that holds a local and an external record,
\* and the filtered answer kept the external one
C19_Witness ==
    /\ last.op = "searchJobs"
    /\ last.arg.response = "payload"
    /\ Len(Locals(jobs)) = 1
    /\ Len(Externals(jobs)) = 1
    /\ last.ret = Externals(jobs)
    /\ storage = Stored(jobs)

\* C20: a provider failure during a sync is signalled to the caller of the
\* sync; the returned promise of a searchJobs call resolves to a Job[] in
\* either case, so the only signal it can give is a rejection.
C20_FailureIsSignalled ==
    (last.op = "searchJobs" /\ last.arg.response \in FetchFailures)
        => last.raised

Mutators ==
    {"addJob", "updateJob", "deleteJob", "deleteJobs", "deleteAllJobs",
     "syncJobsFromAPI"}

\* C21: when a mutating operation has written and the write went through,
\* the stored value is the whole in-memory collection, record for record and
\* in order, changes of earlier calls whose writes failed included; a store
\* constructed from it has the same getAllJobs.
C21_WriteIsWholeCollection ==
    (last.op \in Mutators /\ last.wrote /\ last.ok) =>
        /\ storage.kind = "array"
        /\ Len(storage.value) = Len(getAllJobs)
        /\ \A i \in 1..Len(getAllJobs) : storage.value[i] = getAllJobs[i]
        /\ loadFromStorage(storage).shape = "array"
        /\ loadFromStorage(storage).jobs = getAllJobs

\* a write went through after an earlier write had failed: the store held
\* nothing while the collection already held a synced record
C21_Witness ==
    /\ last.op = "addJob"
    /\ last.wrote
    /\ last.ok
    /\ last.store.kind = "absent"
    /\ Len(last.pre) = 1
    /\ Len(Externals(last.pre)) = 1
    /\ storage = Stored(jobs)

\* C22: external records change or go only when a sync replaces the whole
\* external subset: updateJob, deleteJob and deleteJobs called with the id
\* of an external record leave every external record as it was.
C22_ExternalsOwnedBySync ==
    last.op \in {"updateJob", "deleteJob", "deleteJobs"} =>
        Externals(jobs) = Externals(last.pre)

\* C23: every record has a created_at and an updated_at that are instants,
\* with updated_at >= created_at, whatever creation timestamp a synced
\* payload carried (past, future, absent, unparseable) and whatever fields
\* an update named.
C23_TimestampsOrdered ==
    \A i \in 1..Len(jobs) :
        /\ jobs[i].created_at >= 0
        /\ jobs[i].updated_at >= 0
        /\ jobs[i].updated_at >= jobs[i].created_at

\* C26: a synced payload whose created_at is absent or is not a date gets
\* the label "Recently" as its posted text, and the sync does not raise.
C26_BadDateIsRecently ==
    last.op = "syncJobsFromAPI" =>
        /\ ~last.raised
        /\ \A k \in 1..Len(last.arg) :
               last.arg[k].created_at \in {NoDate, BadDate} =>
                   Externals(jobs)[k].posted = "Recently"

\* the text is not empty and neither starts nor ends with a space
IsTrimmed(text) ==
    /\ Chars(text) # <<>>
    /\ Head(Chars(text)) # " "
    /\ Chars(text)[Len(Chars(text))] # " "

\* C24: whichever way a record entered, by the create form or by a sync of
\* any payload, the entries of its requirements and skills are non-empty and
\* carry no leading or trailing whitespace.
C24_ListEntriesTrimmed ==
    \A i \in 1..Len(jobs) :
        \A text \in Range(jobs[i].requirements) \cup Range(jobs[i].skills) :
            IsTrimmed(text)

\* instant y is no later than k days after instant x
NoLaterThan(y, x, k) ==
    \/ y.day < x.day + k
    \/ (y.day = x.day + k /\ y.ms <= x.ms)

\* the least number of whole days that spans the gap between two instants
DaysApart(a, b) ==
    CHOOSE d \in 0..(MaxDays + 1) :
        /\ NoLaterThan(a, b, d) /\ NoLaterThan(b, a, d)
        /\ \A k \in 0..(d - 1) :
               ~(NoLaterThan(a, b, k) /\ NoLaterThan(b, a, k))

\* C25: for a parseable timestamp and any clock reading, with
\* d = ceil(|now - ts| / 1 day) >= 1, the label is "1 day ago" for d = 1,
\* "d days ago" for 1 < d < 7, "ceil(d/7) weeks ago" for 7 <= d < 30 and
\* "ceil(d/30) months ago" for d >= 30; exactly 2 days give "2 days ago",
\* exactly 10 days "2 weeks ago", exactly 45 days "2 months ago".
C25_AgeBuckets ==
    last.op = "formatDate" =>
        LET d == DaysApart(last.arg.date, last.arg.now)
            exactly(n) == /\ last.arg.date.ms = last.arg.now.ms
                          /\ last.arg.now.day = last.arg.date.day + n
        IN  /\ d = 1 => last.ret = "1 day ago"
            /\ (1 < d /\ d < 7) => last.ret = ToString(d) \o " days ago"
            /\ (7 <= d /\ d < 30) =>
                   last.ret = ToString((d + 6) \div 7) \o " weeks ago"
            /\ d >= 30 =>
                   last.ret = ToString((d + 29) \div 30) \o " months ago"
            /\ exactly(2) => last.ret = "2 days ago"
            /\ exactly(10) => last.ret = "2 weeks ago"
            /\ exactly(45) => last.ret = "2 months ago"

\* a timestamp 45 days and a millisecond old fell into the months bucket
C25_Witness ==
    /\ last.op = "formatDate"
    /\ last.arg.now.day = last.arg.date.day + 45
    /\ last.arg.now.ms = 1
    /\ last.arg.date.ms = 0
    /\ last.ret = "2 months ago"

\* js lists its local records before its external ones, the local ones from
\* the most recently created to the least
LocalsFirstNewestFirst(js) ==
    \A i, k \in 1..Len(js) :
        i < k =>
            /\ IsExternal(js[i]) => IsExternal(js[k])
            /\ (IsAdmin(js[i]) /\ IsAdmin(js[k])) =>
                   js[i].created_at >= js[k].created_at

\* C27: starting from an empty store, after any sequence of add, update of
\* descriptive fields, deleteOne, deleteMany, deleteAll and sync calls, every
\* local record precedes every external one and the local records stand
\* most-recently-added first (an add puts its record in front of the locals
\* that were there); getAllJobs and every filter result list them so too.
C27_LocalsFirstNewestFirst ==
    /\ LocalsFirstNewestFirst(jobs)
    /\ LocalsFirstNewestFirst(getAllJobs)
    /\ \A args \in SearchArgs :
           LocalsFirstNewestFirst(getFilteredJobs(args.query, args.filters))
    /\ last.op = "addJob" =>
           Locals(jobs) = <<last.ret>> \o Locals(last.pre)
    /\ last.op \in {"updateJob", "deleteJob", "deleteJobs", "syncJobsFromAPI"} =>
           Len(Locals(jobs)) <= Len(Locals(last.pre))

\* a sync ran over a catalog of a local record added after an external one
\* had been synced, and left the local record in front of the new external
C27_Witness ==
    /\ last.op = "syncJobsFromAPI"
    /\ Len(last.pre) = 2
    /\ IsAdmin(last.pre[1])
    /\ IsExternal(last.pre[2])
    /\ Len(jobs) = 2
    /\ IsAdmin(jobs[1])
    /\ IsExternal(jobs[2])
    /\ jobs[1] = last.pre[1]
    /\ jobs[2] # last.pre[2]

\* how many records of js have the id and the source of job
CountLike(js, job) ==
    Cardinality({i \in 1..Len(js) :
                    js[i].id = job.id /\ js[i].source = job.source})

SameIdsAndSources(a, b) ==
    /\ Len(a) = Len(b)
    /\ \A i \in 1..Len(a) : CountLike(a, a[i]) = CountLike(b, a[i])

\* the last call was the sync of the panel's syncWithAPI: the collection
\* was not empty and was handed to syncJobsFromAPI as the job list
WasSyncWithAPI ==
    /\ last.op = "syncJobsFromAPI"
    /\ Len(last.pre) > 0
    /\ last.arg = AsPayloads(last.pre)

\* C28: the panel's syncWithAPI does not grow the catalog when the provider
\* delivered nothing new: after a run no external record has the id of a
\* local record, and one more run would leave the number of records and the
\* multiset of (id, source) pairs as they are.
C28_PanelSyncIsStable ==
    WasSyncWithAPI =>
        /\ \A i, k \in 1..Len(jobs) :
               (IsAdmin(jobs[i]) /\ IsExternal(jobs[k])) =>
                   jobs[i].id # jobs[k].id
        /\ SameIdsAndSources(
               replaceAPIJobs(jobs, normalizeAPIJobs(AsPayloads(jobs), now)),
               jobs)

\* C29: when add, update, deleteOne, deleteMany or deleteAll run while a
\* forced search is in flight, or two forced searches overlap, each fetch
\* completion keeps every local record exactly as it stands at that moment
\* (the collection of the moment the search was called plays no part), and
\* after a completed sync the external records are the normalized payload of
\* that fetch, in the collection and in its stored copy.
C29_CompletionKeepsLocals ==
    last.op = "searchJobs" =>
        /\ Locals(jobs) = Locals(last.pre)
        /\ last.arg.response = "ok" =>
               /\ Externals(jobs) = normalizeAPIJobs(last.arg.payload, last.t)
               /\ jobs = Locals(last.pre) \o Externals(jobs)
               /\ storage = Stored(jobs)

\* a fetch completed with a payload while another was still in flight, after
\* the admin had added a record later than the search was called, and the
\* added record is in the collection together with the payload's record
C29_Witness ==
    /\ last.op = "searchJobs"
    /\ last.arg.response = "ok"
    /\ Len(inflight) = 1
    /\ Len(last.arg.payload) = 1
    /\ Len(Locals(last.pre)) = 1
    /\ last.arg.at < last.t
    /\ \E r \in 0..(NumRand - 1) : last.pre[1].id = JobId(last.t, r)
    /\ Len(jobs) = 2
    /\ jobs[1] = last.pre[1]
    /\ IsExternal(jobs[2])

====
